---- MODULE Spec2Model ----
(***************************************************************************)
(* Time tick sync inspector (timeTickSyncInspectorImpl, impls.go).         *)
(*                                                                         *)
(* One background goroutine (background) selects over the shutdown         *)
(* context, the ticker and the sync notifier and requests dispatches with  *)
(* asyncSync; every dispatch that passes the working set runs in its own   *)
(* goroutine.  External callers call TriggerSync, RegisterSyncOperator,    *)
(* UnregisterSyncOperator and Close concurrently.                          *)
(***************************************************************************)
EXTENDS Naturals, FiniteSets, Bags, TLC

\* ------------------------------------------------------------------ bounds
MaxTriggers == 2

\* Calls of Close.
MaxClose == 2

\* ------------------------------------------------------- values and inputs
\* types.PChannelInfo: a name plus metadata (the term); "a" exists under two
\* terms so that two identities can share one name.
PChannels ==
    { [Name |-> "a", Term |-> 1], [Name |-> "a", Term |-> 2], [Name |-> "b", Term |-> 1] }

Names == { c.Name : c \in PChannels }

\* A TimeTickSyncOperator is identified by what Channel() returns.
Operators == PChannels

NoOp == [Name |-> "", Term |-> 0]

EmptySignals == [c \in {} |-> FALSE]

VARIABLES
    operators,   \* s.operators: name -> operator (NoOp when absent)
    signal,      \* s.syncNotifier: pending signals, PChannelInfo -> persisted
    working,     \* s.working: names with a sync goroutine in flight
    wg,          \* s.wg counter
    cancelled,   \* s.taskNotifier context cancelled
    finished,    \* s.taskNotifier.Finish called
    bgpc,        \* position of background(): select, tick, drain, returning, stopped, dead
    rangeTodo,   \* names operators.Range has still to visit in this tick
    signals,     \* local `signals` of background(): entries still to visit
    execs,       \* bag of the goroutines launched by asyncSync and not yet ended
    closepc,     \* position of the caller of Close
    panic,       \* "none", or the function that panicked (the process is dead)
    \* observation (history) variables
    sinceDrain,  \* <<channel, persisted>> of every TriggerSync since the last Get
    drainSrc,    \* sinceDrain as it was at the Get of the current/latest drain
    reqs,        \* bag of the asyncSync calls made by the current/latest sweep
    calls,       \* bag of the Sync calls made by goroutines of that sweep
    tickOK,      \* the latest sweep is a tick, no registered name was in flight
                 \* when it fired and no operator was removed since
    unserved,    \* names with a TriggerSync(_, true) not yet followed by the launch
                 \* of an execution with persisted = true for that name
    nTrig,       \* number of TriggerSync calls so far
    nClose,      \* number of Close calls so far
    ticked       \* the ticker case of the select was taken at least once

vars == << operators, signal, working, wg, cancelled, finished, bgpc, rangeTodo,
           signals, execs, closepc, panic, sinceDrain, drainSrc, reqs,
           calls, tickOK, unserved, nTrig, nClose, ticked >>

obsVars == << sinceDrain, drainSrc, reqs, calls, tickOK, unserved >>

cntVars == << nTrig, nClose, ticked >>

\* ------------------------------------------------------------------ helpers
Restrict(f, S) == [x \in S |-> f[x]]

One(x) == SetToBag({x})

Registered == { n \in Names : operators[n] # NoOp }

\* The goroutines of earlier sweeps are no longer those of the latest sweep.
Aged(e) == [e EXCEPT !.cur = FALSE]

AgedExecs ==
    LET old == { Aged(e) : e \in BagToSet(execs) }
        n(r) == CopiesIn([r EXCEPT !.cur = TRUE], execs) + CopiesIn(r, execs)
    IN [r \in old |-> n(r)]

\* syncNotifier.AddAndNotify: merge the flag into the pending signal (OR).  The
\* key is the PChannelInfo that TriggerSync passes in and that the drain loop
\* gets back from Get (it reads pchannel.Name from it).
AddAndNotify(c, persisted) ==
    IF c \in DOMAIN signal
    THEN [signal EXCEPT ![c] = signal[c] \/ persisted]
    ELSE [x \in DOMAIN signal \cup {c} |-> IF x = c THEN persisted ELSE signal[x]]

\* NewTimeTickSyncInspector: empty registry, notifier and working set; the
\* background goroutine is started and stands at its select.
Init ==
    /\ operators = [n \in Names |-> NoOp]
    /\ signal = EmptySignals
    /\ working = {}
    /\ wg = 0
    /\ cancelled = FALSE
    /\ finished = FALSE
    /\ bgpc = "select"
    /\ rangeTodo = {}
    /\ signals = EmptySignals
    /\ execs = EmptyBag
    /\ closepc = "idle"
    /\ panic = "none"
    /\ sinceDrain = {}
    /\ drainSrc = {}
    /\ reqs = EmptyBag
    /\ calls = EmptyBag
    /\ tickOK = FALSE
    /\ unserved = {}
    /\ nTrig = 0
    /\ nClose = 0
    /\ ticked = FALSE

\* The process runs until some goroutine panics.
Alive == panic = "none"

\* ---------------------------------------------------------------- callers
TriggerSync(c, persisted) ==
    /\ Alive
    /\ nTrig < MaxTriggers
    /\ nTrig' = nTrig + 1
    /\ nClose' = nClose
    /\ ticked' = ticked
    /\ signal' = AddAndNotify(c, persisted)
    /\ sinceDrain' = sinceDrain \cup { <<c, persisted>> }
    /\ unserved' = IF persisted THEN unserved \cup {c.Name} ELSE unserved
    /\ UNCHANGED << operators, working, wg, cancelled, finished, bgpc, rangeTodo,
                    signals, execs, closepc, panic, drainSrc, reqs,
                    calls, tickOK >>

\* An unrecovered panic ends the process: every goroutine stops where it is
\* (the loop, the executions and a caller of Close); what the inspector's
\* fields held at that moment stays as it was.
Panic(fn) ==
    /\ panic' = fn
    /\ bgpc' = "dead"
    /\ closepc' = "dead"
    /\ execs' = EmptyBag
    /\ rangeTodo' = {}
    /\ signals' = EmptySignals

\* Insert instead of GetOrInsert: the entry is overwritten before the panic.
RegisterOverwrite(o) ==
    /\ Alive
    /\ LET loaded == operators[o.Name] # NoOp IN
        /\ operators' = [operators EXCEPT ![o.Name] = o]
        /\ IF loaded
           THEN Panic("RegisterSyncOperator")
           ELSE UNCHANGED << bgpc, rangeTodo, signals, execs, closepc, panic >>
    /\ UNCHANGED << signal, working, wg, cancelled, finished >>
    /\ UNCHANGED obsVars
    /\ UNCHANGED cntVars

\* GetOrInsert, then panic if loaded.
RegisterSyncOperator(o) ==
    /\ Alive
    /\ LET loaded == operators[o.Name] # NoOp IN
        IF loaded
        THEN /\ operators' = operators
             /\ Panic("RegisterSyncOperator")
        ELSE /\ operators' = [operators EXCEPT ![o.Name] = o]
             /\ UNCHANGED << bgpc, rangeTodo, signals, execs, closepc, panic >>
    /\ UNCHANGED << signal, working, wg, cancelled, finished >>
    /\ UNCHANGED obsVars
    /\ UNCHANGED cntVars

\* Remove without looking at what was removed: an absent name is ignored.
UnregisterSilent(o) ==
    /\ Alive
    /\ operators' = [operators EXCEPT ![o.Name] = NoOp]
    /\ tickOK' = IF operators[o.Name] # NoOp THEN FALSE ELSE tickOK
    /\ UNCHANGED << bgpc, rangeTodo, signals, execs, closepc, panic >>
    /\ UNCHANGED << signal, working, wg, cancelled, finished >>
    /\ UNCHANGED << sinceDrain, drainSrc, reqs, calls, unserved >>
    /\ UNCHANGED cntVars

\* GetAndRemove, then panic if not loaded.
UnregisterSyncOperator(o) ==
    /\ Alive
    /\ LET loaded == operators[o.Name] # NoOp IN
        IF loaded
        THEN /\ operators' = [operators EXCEPT ![o.Name] = NoOp]
             /\ tickOK' = FALSE
             /\ UNCHANGED << bgpc, rangeTodo, signals, execs, closepc, panic >>
        ELSE /\ operators' = operators
             /\ tickOK' = tickOK
             /\ Panic("UnregisterSyncOperator")
    /\ UNCHANGED << signal, working, wg, cancelled, finished >>
    /\ UNCHANGED << sinceDrain, drainSrc, reqs, calls, unserved >>
    /\ UNCHANGED cntVars

\* ------------------------------------------------------------ dispatching
\* A goroutine that does not capture the flag it was requested with.
LaunchWithoutFlag(pchannelName, persisted) ==
    /\ working' = working \cup {pchannelName}
    /\ wg' = wg + 1
    /\ execs' = execs (+) One([pc |-> "lookup", name |-> pchannelName,
                               persisted |-> FALSE, cur |-> TRUE])
    /\ unserved' = unserved

\* The goroutine of asyncSync is started: working.Insert succeeded, wg.Add(1), go.
Launch(pchannelName, persisted) ==
    /\ working' = working \cup {pchannelName}
    /\ wg' = wg + 1
    /\ execs' = execs (+) One([pc |-> "lookup", name |-> pchannelName,
                               persisted |-> persisted, cur |-> TRUE])
    /\ unserved' = IF persisted THEN unserved \ {pchannelName} ELSE unserved

\* asyncSync that ignores the result of working.Insert.
asyncSyncNoSkip(pchannelName, persisted) == Launch(pchannelName, persisted)

\* asyncSync that raises the flag to the level of a request refused earlier.
asyncSyncOwed(pchannelName, persisted) ==
    IF pchannelName \in working
    THEN UNCHANGED << working, wg, execs, unserved >>
    ELSE Launch(pchannelName, persisted \/ pchannelName \in unserved)

asyncSync(pchannelName, persisted) ==
    IF pchannelName \in working
    THEN UNCHANGED << working, wg, execs, unserved >>
    ELSE Launch(pchannelName, persisted)

Request(name, ch, persisted) == One([name |-> name, ch |-> ch, persisted |-> persisted])

\* ------------------------------------------------------------- background
\* The Done case leaves the select only (break) after signalling Finish: the
\* loop goes on.
BgDoneBreak ==
    /\ panic = "none"
    /\ bgpc = "select"
    /\ cancelled
    /\ finished' = TRUE
    /\ UNCHANGED << operators, signal, working, wg, cancelled, bgpc, rangeTodo,
                    signals, execs, closepc, panic, sinceDrain, drainSrc, reqs,
                    calls, tickOK, unserved, nTrig, nClose, ticked >>

\* The Done case signals Finish itself, before the loop is left.
BgDoneFinishFirst ==
    /\ panic = "none"
    /\ bgpc = "select"
    /\ cancelled
    /\ finished' = TRUE
    /\ bgpc' = "returning"
    /\ UNCHANGED << operators, signal, working, wg, cancelled, rangeTodo,
                    signals, execs, closepc, panic, sinceDrain, drainSrc, reqs,
                    calls, tickOK, unserved, nTrig, nClose, ticked >>

\* case <-s.taskNotifier.Context().Done(): return
BgDone ==
    /\ Alive
    /\ bgpc = "select"
    /\ cancelled
    /\ bgpc' = "returning"
    /\ UNCHANGED << operators, signal, working, wg, cancelled, finished, rangeTodo,
                    signals, execs, closepc, panic >>
    /\ UNCHANGED obsVars
    /\ UNCHANGED cntVars

\* background that returns without the deferred Finish.
BgFinishMissing ==
    /\ Alive
    /\ bgpc = "returning"
    /\ bgpc' = "stopped"
    /\ UNCHANGED << operators, signal, working, wg, cancelled, finished, rangeTodo,
                    signals, execs, closepc, panic >>
    /\ UNCHANGED obsVars
    /\ UNCHANGED cntVars

\* defer s.taskNotifier.Finish(struct{}{})
BgFinish ==
    /\ Alive
    /\ bgpc = "returning"
    /\ finished' = TRUE
    /\ bgpc' = "stopped"
    /\ UNCHANGED << operators, signal, working, wg, cancelled, rangeTodo, signals,
                    execs, closepc, panic >>
    /\ UNCHANGED obsVars
    /\ UNCHANGED cntVars

\* A tick sweep that asks for a persisted sync.
TickFlagPersisted == TRUE

\* The flag the tick sweep passes to asyncSync.
TickFlag == FALSE

\* A loop that waits for the executions of the last sweep (s.wg.Wait()) before
\* it starts the next periodic sweep.
BgTickWaits ==
    /\ panic = "none"
    /\ bgpc = "select"
    /\ wg = 0
    /\ rangeTodo' = Registered
    /\ bgpc' = IF Registered = {} THEN "select" ELSE "tick"
    /\ execs' = AgedExecs
    /\ tickOK' = (Registered \cap working = {})
    /\ reqs' = EmptyBag
    /\ calls' = EmptyBag
    /\ drainSrc' = {}
    /\ ticked' = TRUE
    /\ UNCHANGED << operators, signal, working, wg, cancelled, finished, signals,
                    closepc, panic, sinceDrain, unserved, nTrig, nClose >>

\* case <-ticker.C: the Range over s.operators starts.
BgTick ==
    /\ Alive
    /\ bgpc = "select"
    /\ rangeTodo' = Registered
    /\ bgpc' = IF Registered = {} THEN "select" ELSE "tick"
    /\ execs' = AgedExecs
    /\ tickOK' = (Registered \cap working = {})
    /\ reqs' = EmptyBag
    /\ calls' = EmptyBag
    /\ drainSrc' = {}
    /\ UNCHANGED << operators, signal, working, wg, cancelled, finished, signals,
                    closepc, panic, sinceDrain, unserved, nTrig, nClose >>
    /\ ticked' = TRUE

\* A Range callback that returns false: the Range stops after its first visit.
BgTickVisitOnly(name) ==
    /\ panic = "none"
    /\ bgpc = "tick"
    /\ name \in rangeTodo
    /\ asyncSync(name, TickFlag)
    /\ reqs' = reqs (+) Request(name, NoOp, TickFlag)
    /\ rangeTodo' = {}
    /\ bgpc' = "select"
    /\ UNCHANGED << operators, signal, cancelled, finished, signals, closepc, panic,
                    sinceDrain, drainSrc, calls, tickOK, nTrig, nClose, ticked >>

\* One visit of the Range callback: s.asyncSync(name, false).
BgTickVisit(name) ==
    /\ Alive
    /\ bgpc = "tick"
    /\ name \in rangeTodo
    /\ asyncSync(name, TickFlag)
    /\ reqs' = reqs (+) Request(name, NoOp, TickFlag)
    /\ rangeTodo' = rangeTodo \ {name}
    /\ bgpc' = IF rangeTodo' = {} THEN "select" ELSE "tick"
    /\ UNCHANGED << operators, signal, cancelled, finished, signals, closepc, panic,
                    sinceDrain, drainSrc, calls, tickOK >>
    /\ UNCHANGED cntVars

\* A drain loop that drops the drained flag, as the tick sweep does.
DrainFlagDropped(pchannel) == FALSE

\* A drain loop that asks for a persisted sync whatever the drained flag is.
DrainFlagAlways(pchannel) == TRUE

\* The flag the drain loop passes to asyncSync for the entry of pchannel.
DrainFlag(pchannel) == signals[pchannel]

\* A wake-up that collects one pending entry and discards the others.
BgDrainOne ==
    /\ panic = "none"
    /\ bgpc = "select"
    /\ \E c \in DOMAIN signal : signals' = Restrict(signal, {c})
    /\ signal' = EmptySignals
    /\ bgpc' = "drain"
    /\ execs' = AgedExecs
    /\ drainSrc' = sinceDrain
    /\ sinceDrain' = {}
    /\ reqs' = EmptyBag
    /\ calls' = EmptyBag
    /\ tickOK' = FALSE
    /\ UNCHANGED << operators, working, wg, cancelled, finished, rangeTodo, closepc,
                    panic, unserved, nTrig, nClose, ticked >>

\* case <-s.syncNotifier.WaitChan(): signals := s.syncNotifier.Get()
BgDrain ==
    /\ Alive
    /\ bgpc = "select"
    /\ DOMAIN signal # {}
    /\ signals' = signal
    /\ signal' = EmptySignals
    /\ bgpc' = "drain"
    /\ execs' = AgedExecs
    /\ drainSrc' = sinceDrain
    /\ sinceDrain' = {}
    /\ reqs' = EmptyBag
    /\ calls' = EmptyBag
    /\ tickOK' = FALSE
    /\ UNCHANGED << operators, working, wg, cancelled, finished, rangeTodo, closepc,
                    panic, unserved >>
    /\ UNCHANGED cntVars

\* One iteration of `for pchannel, persisted := range signals`.
BgDrainVisit(pchannel) ==
    /\ Alive
    /\ bgpc = "drain"
    /\ pchannel \in DOMAIN signals
    /\ asyncSync(pchannel.Name, DrainFlag(pchannel))
    /\ reqs' = reqs (+) Request(pchannel.Name, pchannel, DrainFlag(pchannel))
    /\ signals' = Restrict(signals, DOMAIN signals \ {pchannel})
    /\ bgpc' = IF DOMAIN signals' = {} THEN "select" ELSE "drain"
    /\ UNCHANGED << operators, signal, cancelled, finished, rangeTodo, closepc, panic,
                    sinceDrain, drainSrc, calls, tickOK >>
    /\ UNCHANGED cntVars

\* ----------------------------------------------- the goroutine of asyncSync
At(e, pc) == e \in BagToSet(execs) /\ e.pc = pc

Step(e, pc) == (execs (-) One(e)) (+) One([e EXCEPT !.pc = pc])

\* The goroutine looks the operator up with MustGetOperator: a missing operator
\* panics.
ExecLookupMust(e) ==
    /\ Alive
    /\ At(e, "lookup")
    /\ IF operators[e.name] # NoOp
       THEN /\ execs' = Step(e, "sync")
            /\ calls' = IF e.cur
                        THEN calls (+) One([name |-> e.name, persisted |-> e.persisted])
                        ELSE calls
            /\ UNCHANGED << bgpc, rangeTodo, signals, closepc, panic >>
       ELSE /\ Panic("MustGetOperator")
            /\ calls' = calls
    /\ UNCHANGED << operators, signal, working, wg, cancelled, finished, sinceDrain,
                    drainSrc, reqs, tickOK, unserved >>
    /\ UNCHANGED cntVars

\* if operator, ok := s.operators.Get(pchannelName); ok { operator.Sync(...) }
\* Without an operator the function body is over and the deferred function
\* starts with s.wg.Done().
ExecLookup(e) ==
    /\ Alive
    /\ At(e, "lookup")
    /\ LET ok == operators[e.name] # NoOp IN
        /\ execs' = Step(e, IF ok THEN "sync" ELSE "remove")
        /\ wg' = IF ok THEN wg ELSE wg - 1
        /\ calls' = IF ok /\ e.cur
                    THEN calls (+) One([name |-> e.name, persisted |-> e.persisted])
                    ELSE calls
    /\ UNCHANGED << operators, signal, working, cancelled, finished, bgpc,
                    rangeTodo, signals, closepc, panic, sinceDrain,
                    drainSrc, reqs, tickOK, unserved >>
    /\ UNCHANGED cntVars

\* operator.Sync returns and the deferred function starts with s.wg.Done().
SyncReturn(e) ==
    /\ Alive
    /\ At(e, "sync")
    /\ wg' = wg - 1
    /\ execs' = Step(e, "remove")
    /\ UNCHANGED << operators, signal, working, cancelled, finished, bgpc, rangeTodo,
                    signals, closepc, panic >>
    /\ UNCHANGED obsVars
    /\ UNCHANGED cntVars

\* A goroutine that ends without s.working.Remove.
ExecRemoveLeak(e) ==
    /\ panic = "none"
    /\ e \in BagToSet(execs)
    /\ e.pc = "remove"
    /\ execs' = execs (-) One(e)
    /\ UNCHANGED << operators, signal, working, wg, cancelled, finished, bgpc,
                    rangeTodo, signals, closepc, panic, sinceDrain, drainSrc, reqs,
                    calls, tickOK, unserved, nTrig, nClose, ticked >>

\* A goroutine that, on ending, serves a request that was refused meanwhile:
\* requests queued instead of dropped.
ExecRemoveRelaunch(e) ==
    /\ panic = "none"
    /\ e \in BagToSet(execs)
    /\ e.pc = "remove"
    /\ IF e.name \in unserved
       THEN /\ execs' = (execs (-) One(e)) (+)
                           One([pc |-> "lookup", name |-> e.name,
                                persisted |-> TRUE, cur |-> FALSE])
            /\ wg' = wg + 1
            /\ working' = working
            /\ unserved' = unserved \ {e.name}
       ELSE /\ execs' = execs (-) One(e)
            /\ working' = working \ {e.name}
            /\ UNCHANGED << wg, unserved >>
    /\ UNCHANGED << operators, signal, cancelled, finished, bgpc, rangeTodo,
                    signals, closepc, panic, sinceDrain, drainSrc, reqs, calls,
                    tickOK, nTrig, nClose, ticked >>

\* deferred: s.working.Remove(pchannelName); the goroutine ends.
ExecRemove(e) ==
    /\ Alive
    /\ At(e, "remove")
    /\ working' = working \ {e.name}
    /\ execs' = execs (-) One(e)
    /\ UNCHANGED << operators, signal, wg, cancelled, finished, bgpc, rangeTodo,
                    signals, closepc, panic >>
    /\ UNCHANGED obsVars
    /\ UNCHANGED cntVars

\* -------------------------------------------------------------------- Close
\* AsyncTaskNotifier.Cancel: cancels the notifier's context; cancelling a
\* cancelled context changes nothing.
Cancel == cancelled' = TRUE

\* AsyncTaskNotifier.BlockUntilFinish: returns, for every caller and every call,
\* once Finish was called.
BlockUntilFinish == finished

\* A call of Close, the first one or one made after an earlier call returned:
\* s.taskNotifier.Cancel()
CloseCancel ==
    /\ Alive
    /\ closepc \in {"idle", "returned"}
    /\ nClose < MaxClose
    /\ nClose' = nClose + 1
    /\ Cancel
    /\ closepc' = "blockUntilFinish"
    /\ UNCHANGED << operators, signal, working, wg, finished, bgpc, rangeTodo,
                    signals, execs, panic, nTrig, ticked >>
    /\ UNCHANGED obsVars

\* BlockUntilFinish that takes the Finish signal away: only one call sees it.
CloseBlockConsumesFinish ==
    /\ Alive
    /\ closepc = "blockUntilFinish"
    /\ BlockUntilFinish
    /\ finished' = FALSE
    /\ closepc' = "wgWait"
    /\ UNCHANGED << operators, signal, working, wg, cancelled, bgpc,
                    rangeTodo, signals, execs, panic >>
    /\ UNCHANGED obsVars
    /\ UNCHANGED cntVars

\* s.taskNotifier.BlockUntilFinish() returns once Finish was called.
CloseBlockUntilFinish ==
    /\ Alive
    /\ closepc = "blockUntilFinish"
    /\ BlockUntilFinish
    /\ closepc' = "wgWait"
    /\ UNCHANGED << operators, signal, working, wg, cancelled, finished, bgpc,
                    rangeTodo, signals, execs, panic >>
    /\ UNCHANGED obsVars
    /\ UNCHANGED cntVars

\* Close that returns without s.wg.Wait().
CloseNoWgWait ==
    /\ panic = "none"
    /\ closepc = "wgWait"
    /\ closepc' = "returned"
    /\ UNCHANGED << operators, signal, working, wg, cancelled, finished, bgpc,
                    rangeTodo, signals, execs, panic, sinceDrain, drainSrc, reqs,
                    calls, tickOK, unserved, nTrig, nClose, ticked >>

\* s.wg.Wait() returns once the counter is zero; Close returns.
CloseWgWait ==
    /\ Alive
    /\ closepc = "wgWait"
    /\ wg = 0
    /\ closepc' = "returned"
    /\ UNCHANGED << operators, signal, working, wg, cancelled, finished, bgpc,
                    rangeTodo, signals, execs, panic >>
    /\ UNCHANGED obsVars
    /\ UNCHANGED cntVars

\* ------------------------------------------------------------ specification
Next ==
    \/ \E c \in PChannels, persisted \in BOOLEAN : TriggerSync(c, persisted)
    \/ \E o \in Operators : RegisterSyncOperator(o)
    \/ \E o \in Operators : UnregisterSyncOperator(o)
    \/ BgDone
    \/ BgFinish
    \/ BgTick
    \/ \E name \in Names : BgTickVisit(name)
    \/ BgDrain
    \/ \E pchannel \in PChannels : BgDrainVisit(pchannel)
    \/ \E e \in BagToSet(execs) : ExecLookup(e)
    \/ \E e \in BagToSet(execs) : SyncReturn(e)
    \/ \E e \in BagToSet(execs) : ExecRemove(e)
    \/ CloseCancel
    \/ CloseBlockUntilFinish
    \/ CloseWgWait

Spec == Init /\ [][Next]_vars

\* The environment of the progress properties: callers that use the registry
\* as RegisterSyncOperator and UnregisterSyncOperator demand (a misuse ends the
\* process), operators that stay registered once they are, one call of Close.
LiveNext ==
    \/ \E c \in PChannels, persisted \in BOOLEAN : TriggerSync(c, persisted)
    \/ \E o \in Operators :
          /\ o.Term = 1
          /\ operators[o.Name] = NoOp
          /\ RegisterSyncOperator(o)
    \/ BgDone
    \/ BgFinish
    \/ BgTick
    \/ \E name \in Names : BgTickVisit(name)
    \/ BgDrain
    \/ \E pchannel \in PChannels : BgDrainVisit(pchannel)
    \/ \E e \in BagToSet(execs) : ExecLookup(e)
    \/ \E e \in BagToSet(execs) : SyncReturn(e)
    \/ \E e \in BagToSet(execs) : ExecRemove(e)
    \/ closepc = "idle" /\ CloseCancel
    \/ CloseBlockUntilFinish
    \/ CloseWgWait

\* Scheduling.  A Go select with several ready cases picks one of them at
\* random, so a case that is ready again and again is taken (strong fairness
\* for the three cases; for the ticker: the timer keeps firing).  The loop, the
\* goroutines of asyncSync and the caller inside Close keep running (weak
\* fairness); for SyncReturn: every Sync call returns.
Fairness ==
    /\ SF_vars(BgDone)
    /\ SF_vars(BgTick)
    /\ SF_vars(BgDrain)
    /\ WF_vars(BgFinish)
    /\ WF_vars(\E name \in Names : BgTickVisit(name))
    /\ WF_vars(\E pchannel \in PChannels : BgDrainVisit(pchannel))
    /\ \A name \in Names :
          /\ WF_vars(\E e \in BagToSet(execs) : e.name = name /\ ExecLookup(e))
          /\ WF_vars(\E e \in BagToSet(execs) : e.name = name /\ SyncReturn(e))
          /\ WF_vars(\E e \in BagToSet(execs) : e.name = name /\ ExecRemove(e))
    /\ WF_vars(CloseBlockUntilFinish)
    /\ WF_vars(CloseWgWait)

LiveSpec == Init /\ [][LiveNext]_vars /\ Fairness

\* ------------------------------------------------------------------ claims
\* The goroutines of asyncSync that have not ended, for one channel name.
ExecsOf(name) == { e \in BagToSet(execs) : e.name = name }

InFlight(name) == BagCardinality(Restrict(execs, ExecsOf(name)))

RequestsFor(name) == { r \in BagToSet(reqs) : r.name = name }

\* C1: in every reachable state, for every channel name, at most one execution
\* dispatched by the inspector is in progress.
C1_AtMostOneExecutionPerChannel == \A name \in Names : InFlight(name) <= 1

\* C1 witness: the running sweep has requested a dispatch for a name whose
\* execution, launched by an earlier sweep, is still in progress.
C1_Witness ==
    \E e \in BagToSet(execs) : ~e.cur /\ e.pc = "sync" /\ RequestsFor(e.name) # {}

\* C2: when Close has returned, the Scheduler Loop has exited (Finish was
\* signalled) and no launched execution is before or inside its Sync call; only
\* the final working.Remove of a goroutine may still be outstanding.
C2_CloseWaitsForSyncCalls ==
    closepc = "returned" =>
        /\ bgpc = "stopped"
        /\ finished
        /\ wg = 0
        /\ \A e \in BagToSet(execs) : e.pc = "remove"

\* C2 witness: Close has returned after Sync calls of the latest sweep were made,
\* and a goroutine that was waited for has not yet run its working.Remove.
C2_Witness ==
    /\ closepc = "returned"
    /\ calls # EmptyBag
    /\ \E e \in BagToSet(execs) : e.cur /\ e.pc = "remove"

\* C3 as stated: once Close has issued the cancellation, no execution is
\* launched (wg.Add(1) is the launch).
C3_NoLaunchAfterCancel == [][cancelled => wg' <= wg]_vars

\* C3 amended: once the Scheduler Loop has taken the Done branch (it is returning
\* or has signalled Finish), no execution is launched.
C3_NoLaunchAfterDoneObserved ==
    [][(bgpc \in {"returning", "stopped"} \/ finished) => wg' <= wg]_vars

\* C3 witness: the loop has stopped while a wake-up is ready and an operator is
\* registered for the periodic sweep, and nothing is in flight.
C3_Witness ==
    /\ bgpc = "stopped"
    /\ DOMAIN signal # {}
    /\ \E c \in DOMAIN signal : operators[c.Name] # NoOp
    /\ execs = EmptyBag

\* The loop is not inside a sweep (and the process has not died in one).
SweepOver == bgpc \in {"select", "returning", "stopped"}

\* The flags of the TriggerSync calls for channel c recorded in src.
Triggered(src, c) == { p \in BOOLEAN : <<c, p>> \in src }

Merged(src, c) == TRUE \in Triggered(src, c)

\* The dispatch request a drain owes to channel c.
Owed(c) == [name |-> c.Name, ch |-> c, persisted |-> Merged(drainSrc, c)]

SameName(src, c) == { d \in PChannels : d.Name = c.Name /\ Triggered(src, d) # {} }

\* C4: all TriggerSync calls for one channel identity issued with no drain in
\* between yield, in the next drain, exactly one dispatch request for that
\* channel, with the OR of their flags; when no other identity of the same name
\* was drained with it, no Sync call of that drain carries the other flag.
C4_DrainYieldsOrOfTriggers ==
    \A c \in PChannels :
        Triggered(drainSrc, c) # {} =>
            /\ \A r \in BagToSet(reqs) : r.ch = c => r = Owed(c) /\ CopiesIn(r, reqs) = 1
            /\ SweepOver => CopiesIn(Owed(c), reqs) = 1
            /\ SameName(drainSrc, c) = {c} =>
                  CopiesIn([name |-> c.Name, persisted |-> ~Merged(drainSrc, c)], calls) = 0

\* C4 witness: a finished drain collected TriggerSync(c, true) and
\* TriggerSync(c, false) for one channel and Sync(c, true) was called.
C4_Witness ==
    /\ bgpc = "select"
    /\ \E c \in PChannels :
          /\ Triggered(drainSrc, c) = BOOLEAN
          /\ CopiesIn(Owed(c), reqs) = 1
          /\ CopiesIn([name |-> c.Name, persisted |-> TRUE], calls) = 1

\* An execution that this step launches.
LaunchedNow(e) == e.pc = "lookup" /\ e.cur /\ CopiesIn(e, execs') = CopiesIn(e, execs) + 1

\* C5 as stated: whenever an execution is launched with persisted = false, by a
\* tick or by a drain, no TriggerSync(_, true) for its channel name issued
\* before the launch is still unserved.
C5_NeverWeakerThanAnyTrigger ==
    [][\A e \in BagToSet(execs') :
          (LaunchedNow(e) /\ ~e.persisted) => e.name \notin unserved]_vars

\* C5 amended: an execution of the latest sweep carries the flag of a request of
\* that sweep for its name; a request of a tick carries false, a request of a
\* drain carries the OR of the triggers merged for its channel identity since
\* the previous drain.
C5_FlagOfTheRequest ==
    \A e \in BagToSet(execs) :
        e.cur =>
            \E r \in RequestsFor(e.name) :
                /\ r.persisted = e.persisted
                /\ r.ch = NoOp => ~r.persisted
                /\ r.ch # NoOp => r.persisted = Merged(drainSrc, r.ch)

\* C5 witness: a tick has launched an execution with persisted = false for a
\* name whose TriggerSync(_, true) is still pending in the notifier.
C5_Witness ==
    \E e \in BagToSet(execs) :
        /\ e.cur /\ ~e.persisted /\ e.name \in unserved
        /\ \E c \in DOMAIN signal : c.Name = e.name /\ signal[c]
        /\ \E r \in RequestsFor(e.name) : r.ch = NoOp

\* The names that were registered when the latest tick fired.
TickNames == rangeTodo \cup { r.name : r \in BagToSet(reqs) }

CurAt(pc) == { e \in BagToSet(execs) : e.cur /\ e.pc = pc }

\* C6: after a tick that found no registered channel in flight, and while no
\* operator is removed, the tick requests one dispatch per registered name with
\* persisted = false, every Sync call it causes is Sync(name, false) for such a
\* name, at most one per name, and once the sweep and the lookups of its
\* goroutines are over, exactly one per name.
C6_TickSyncsEveryOperatorOnce ==
    tickOK =>
        /\ \A r \in BagToSet(reqs) : r.ch = NoOp /\ ~r.persisted /\ CopiesIn(r, reqs) = 1
        /\ \A cl \in BagToSet(calls) :
              cl.name \in TickNames /\ ~cl.persisted /\ CopiesIn(cl, calls) = 1
        /\ (SweepOver /\ CurAt("lookup") = {}) =>
              \A name \in TickNames :
                  CopiesIn([name |-> name, persisted |-> FALSE], calls) = 1

\* C6 witness: such a tick with two registered operators is over and both
\* operators have received their Sync(_, false).
C6_Witness ==
    /\ tickOK
    /\ bgpc = "select"
    /\ CurAt("lookup") = {}
    /\ Cardinality(TickNames) = 2
    /\ BagCardinality(calls) = 2

\* A dispatch request for name made by this step.
RequestedNow(name) ==
    \E r \in BagToSet(reqs') : r.name = name /\ CopiesIn(r, reqs') = CopiesIn(r, reqs) + 1

\* C7: a name is in the In-Flight Set exactly while a goroutine launched for it
\* has not ended, so every ended execution has released it; and a dispatch
\* request for a name with no execution in progress launches one.
C7_InFlightReleased ==
    /\ [](Alive => working = { e.name : e \in BagToSet(execs) })
    /\ [][\A name \in Names :
            (RequestedNow(name) /\ InFlight(name) = 0) => InFlight(name)' = 1]_vars

\* C7 witness: an execution for a name has called Sync and ended, and a later
\* request of the same sweep has launched a new execution for that name.
C7_Witness ==
    \E e \in CurAt("lookup") : \E cl \in BagToSet(calls) : cl.name = e.name

\* C8: wherever a name is registered, every call of RegisterSyncOperator with an
\* operator of that name panics and leaves the registry as it was (the name
\* still maps to the operator registered first).
C8_DuplicateRegisterPanics ==
    \A o \in Operators :
        (Alive /\ operators[o.Name] # NoOp) =>
            /\ ENABLED RegisterSyncOperator(o)
            /\ ~ENABLED (RegisterSyncOperator(o)
                         /\ ~(panic' = "RegisterSyncOperator" /\ operators' = operators))

\* C8 witness: RegisterSyncOperator has panicked and the name still maps to the
\* operator registered first.
C8_Witness ==
    /\ panic = "RegisterSyncOperator"
    /\ operators["a"] = [Name |-> "a", Term |-> 1]

\* C9: wherever a name is not registered, every call of UnregisterSyncOperator
\* with an operator of that name panics and leaves the registry, the pending
\* signals and the In-Flight Set as they were.
C9_UnregisterAbsentPanics ==
    \A o \in Operators :
        (Alive /\ operators[o.Name] = NoOp) =>
            /\ ENABLED UnregisterSyncOperator(o)
            /\ ~ENABLED (UnregisterSyncOperator(o)
                         /\ ~(/\ panic' = "UnregisterSyncOperator"
                              /\ operators' = operators
                              /\ signal' = signal
                              /\ working' = working))

\* C9 witness: UnregisterSyncOperator has panicked for the absent name "b" while
\* another operator is registered, a signal is pending and a name is in flight.
C9_Witness ==
    /\ panic = "UnregisterSyncOperator"
    /\ operators["b"] = NoOp
    /\ operators["a"] # NoOp
    /\ DOMAIN signal # {}
    /\ working # {}

\* C10: wherever a launched execution is about to look up a name without
\* operator, every outcome of the lookup is: no Sync call, no panic, the
\* goroutine counted as finished (wg.Done) and standing before its
\* working.Remove; and every goroutine standing there removes its name.
C10_MissingOperatorSkipped ==
    \A e \in BagToSet(execs) :
        /\ (Alive /\ e.pc = "lookup" /\ operators[e.name] = NoOp) =>
              /\ ENABLED ExecLookup(e)
              /\ ~ENABLED (ExecLookup(e)
                           /\ ~(/\ panic' = "none"
                                /\ calls' = calls
                                /\ wg' = wg - 1
                                /\ execs' = Step(e, "remove")))
        /\ (Alive /\ e.pc = "remove") =>
              /\ ENABLED ExecRemove(e)
              /\ ~ENABLED (ExecRemove(e)
                           /\ ~(e.name \notin working' /\ execs' = execs (-) One(e)))

\* C10 witness: a goroutine of the latest sweep stands before its working.Remove
\* and no Sync call was made for its name: it found no operator.
C10_Witness ==
    \E e \in CurAt("remove") :
        /\ \A cl \in BagToSet(calls) : cl.name # e.name
        /\ operators[e.name] = NoOp
        /\ wg = 0

\* C11: every call of Close returns, given that Sync calls return; and as long
\* as no trigger was issued and no tick fired, no execution was launched and no
\* Sync call made, so a Close called then returns with zero Sync calls.
C11_CloseTerminates ==
    /\ (closepc = "blockUntilFinish") ~> (closepc = "returned")
    /\ [](nTrig = 0 /\ ~ticked =>
             execs = EmptyBag /\ calls = EmptyBag /\ wg = 0 /\ working = {})

\* C11 witness: A is registered, Close was called before any trigger or tick
\* and has returned.
C11_Witness ==
    /\ closepc = "returned"
    /\ operators["a"] # NoOp
    /\ nTrig = 0
    /\ ~ticked

\* C12: a call of Close made after an earlier call returned finds nothing to
\* wait for (Finish was called, the WaitGroup is at zero, the loop has stopped,
\* no goroutine is before the end of its Sync call), and the steps of that call leave the registry,
\* the executions, the In-Flight Set and the WaitGroup alone and do not panic.
C12_SecondCloseWellDefined ==
    /\ [](nClose >= 2 /\ Alive =>
             /\ finished
             /\ wg = 0
             /\ \A e \in BagToSet(execs) : e.pc = "remove"
             /\ bgpc = "stopped"
             /\ closepc \in {"blockUntilFinish", "wgWait", "returned"})
    /\ [][(nClose' >= 2 /\ closepc' # closepc /\ closepc' # "dead") =>
             UNCHANGED << operators, execs, working, wg, panic, bgpc >>]_vars

\* C12 witness: with an operator registered and a trigger issued, a second call
\* of Close has returned.
C12_Witness ==
    /\ nClose = 2
    /\ closepc = "returned"
    /\ operators["a"] # NoOp
    /\ nTrig > 0

\* C13: a dispatch request for a name that is in the In-Flight Set launches
\* nothing and leaves no trace (executions, In-Flight Set and WaitGroup are
\* unchanged), and an execution starts only in the step of a dispatch request
\* for its name, made by a tick sweep or a drain: never when an execution ends.
C13_DroppedNotQueued ==
    [][\A name \in Names :
          /\ (RequestedNow(name) /\ name \in working) =>
                 UNCHANGED << execs, working, wg >>
          /\ (InFlight(name)' > InFlight(name) \/ wg' > wg) =>
                 /\ bgpc \in {"tick", "drain"}
                 /\ \E n \in Names : RequestedNow(n) /\ InFlight(n)' > InFlight(n)
          /\ InFlight(name)' > InFlight(name) => RequestedNow(name)]_vars

\* C13 witness: the latest drain requested a persisted sync for a name whose
\* execution was in flight, the request was dropped, that execution has ended
\* and nothing runs for the name.
C13_Witness ==
    \E name \in Names :
        /\ Alive
        /\ SweepOver
        /\ name \in unserved
        /\ \E r \in RequestsFor(name) : r.persisted
        /\ \A c \in DOMAIN signal : c.Name # name
        /\ InFlight(name) = 0
        /\ name \notin working

\* A TriggerSync(_, true) for the name was drained and its dispatch request
\* dropped: the name is unserved and no signal for it is pending.
Lost(name) ==
    /\ name \in unserved
    /\ \A c \in DOMAIN signal \cup DOMAIN signals : c.Name # name

SyncCalls(name) == { e \in ExecsOf(name) : e.pc = "sync" }

\* C14 as stated: once a TriggerSync(C, true) for a registered channel was
\* dropped and the execution in flight has ended, then, unless shutdown is
\* requested or a further trigger is issued, a Sync(C, true) call occurs.
C14_PersistedLevelServedLater ==
    \A name \in Names : \A k \in 0..MaxTriggers :
        (Lost(name) /\ InFlight(name) = 0 /\ operators[name] # NoOp /\ nTrig = k)
            ~> \/ \E e \in SyncCalls(name) : e.persisted
               \/ cancelled
               \/ nTrig > k

\* C14 amended: after the drop, and unless shutdown is requested, a Sync call
\* for the channel occurs again, but as long as no further trigger is issued
\* the dropped level stays unserved: no execution with persisted = true is
\* launched for the name.
C14_DroppedLevelIsNotServed ==
    /\ \A name \in Names :
          (Lost(name) /\ InFlight(name) = 0 /\ operators[name] # NoOp)
              ~> (SyncCalls(name) # {} \/ cancelled)
    /\ [][\A name \in Names :
            (Lost(name) /\ nTrig' = nTrig) =>
                /\ Lost(name)'
                /\ (\E e \in ExecsOf(name)' : e.persisted) =>
                       (\E e \in ExecsOf(name) : e.persisted)]_vars

\* C14 witness: a persisted trigger for a registered name was dropped, and a
\* later tick has launched an execution that is now inside Sync(name, false).
C14_Witness ==
    \E name \in Names :
        /\ Lost(name)
        /\ operators[name] # NoOp
        /\ \E r \in RequestsFor(name) : r.ch = NoOp
        /\ \E e \in SyncCalls(name) : e.cur /\ ~e.persisted

\* The TriggerSync(c, p) issued earlier was collected by a drain, and that drain
\* has requested a dispatch for c with a flag that is at least p.
Served(c, p) ==
    /\ <<c, p>> \notin sinceDrain
    /\ <<c, p>> \in drainSrc
    /\ \E r \in BagToSet(reqs) : r.ch = c /\ (p => r.persisted)

\* C15 as stated: every TriggerSync(C, p) issued before shutdown is requested
\* is eventually drained and a dispatch for C requested with a flag at least p.
C15_NoSignalLost ==
    \A c \in PChannels : \A p \in BOOLEAN :
        (<<c, p>> \in sinceDrain /\ ~cancelled) ~> Served(c, p)

\* C15 amended: every TriggerSync(C, p) is eventually drained and a dispatch
\* for C requested with a flag at least p, unless the loop takes the Done case
\* of its select before it drains.
C15_NoSignalLostWhileLoopRuns ==
    \A c \in PChannels : \A p \in BOOLEAN :
        (<<c, p>> \in sinceDrain) ~> (Served(c, p) \/ bgpc \in {"returning", "stopped"})

\* C15 witness: two triggers for one channel, with different flags, coalesced
\* into one wake-up, and the drain has requested the dispatch with the stronger
\* flag, before any shutdown request.
C15_Witness ==
    \E c \in PChannels :
        /\ Served(c, TRUE)
        /\ Served(c, FALSE)
        /\ ~cancelled

\* C16: for every registered name, as long as shutdown is not requested, a Sync
\* call on its operator is in progress again and again, and each of them
\* returns: whenever none is in progress, one occurs later or shutdown is
\* requested, whatever happened to the triggers for the name.
C16_SweepGuaranteesProgress ==
    \A name \in Names :
        /\ (SyncCalls(name) # {}) ~> (SyncCalls(name) = {})
        /\ (operators[name] # NoOp /\ SyncCalls(name) = {})
               ~> (SyncCalls(name) # {} \/ cancelled \/ operators[name] = NoOp)

\* C16 witness: every trigger the callers could issue has been issued, a
\* persisted one for the name was dropped, and an execution launched by the
\* running tick sweep is inside the Sync call of the name's operator.
C16_Witness ==
    \E name \in Names :
        /\ nTrig = MaxTriggers
        /\ name \in unserved
        /\ operators[name] # NoOp
        /\ ~cancelled
        /\ bgpc = "tick"
        /\ \E e \in SyncCalls(name) : e.cur

\* The loop has taken the Done case of its select.
DoneObserved == bgpc \in {"returning", "stopped"}

\* C17: once the loop has taken the Done case it makes no dispatch request and
\* starts no sweep, it moves from returning to stopped only and stays there
\* (as long as the process lives), it got there after a shutdown request, and
\* Finish is signalled exactly in the step from returning to stopped.
C17_ShutdownIsOneWay ==
    /\ [](DoneObserved => cancelled /\ rangeTodo = {} /\ DOMAIN signals = {})
    /\ [](Alive => (finished <=> bgpc = "stopped"))
    /\ [][DoneObserved =>
             /\ reqs' = reqs
             /\ \A name \in Names : ~RequestedNow(name)
             /\ UNCHANGED << rangeTodo, signals, signal, sinceDrain >> \/ nTrig' > nTrig
             /\ \/ bgpc' = bgpc
                \/ bgpc = "returning" /\ bgpc' = "stopped" /\ ~finished /\ finished'
                \/ ~Alive']_vars

\* C17 witness: the loop has observed the shutdown and not yet signalled
\* Finish, while a wake-up is ready and an operator is registered.
C17_Witness ==
    /\ bgpc = "returning"
    /\ ~finished
    /\ DOMAIN signal # {}
    /\ Registered # {}

\* C18: while a Sync call for a name A is in progress, however long, the loop
\* is never held up: at its select every ready case can be taken, inside a sweep
\* every remaining visit can be made, a visit for another name B that is not in
\* flight launches an execution for B, and TriggerSync can be called.
C18_LoopNeverBlocksOnSync ==
    \A A \in Names :
        (Alive /\ SyncCalls(A) # {}) =>
            /\ bgpc = "select" => ENABLED BgTick
            /\ (bgpc = "select" /\ DOMAIN signal # {}) => ENABLED BgDrain
            /\ (bgpc = "select" /\ cancelled) => ENABLED BgDone
            /\ bgpc \in {"select", "tick", "drain", "returning", "stopped"}
            /\ \A B \in rangeTodo :
                  /\ bgpc = "tick"
                  /\ ENABLED BgTickVisit(B)
                  /\ (B # A /\ B \notin working) =>
                        ~ENABLED (BgTickVisit(B) /\ InFlight(B)' # 1)
            /\ \A c \in DOMAIN signals :
                  /\ bgpc = "drain"
                  /\ ENABLED BgDrainVisit(c)
                  /\ (c.Name # A /\ c.Name \notin working) =>
                        ~ENABLED (BgDrainVisit(c) /\ InFlight(c.Name)' # 1)
            /\ nTrig < MaxTriggers =>
                  \A c \in PChannels, p \in BOOLEAN : ENABLED TriggerSync(c, p)

\* C18 witness: the Sync call of an execution launched by an earlier sweep is
\* still in progress, and the latest sweep has launched an execution for
\* another, registered name, which is inside Sync as well.
C18_Witness ==
    \E A, B \in Names :
        /\ A # B
        /\ \E e \in SyncCalls(A) : ~e.cur
        /\ \E f \in SyncCalls(B) : f.cur
        /\ operators[B] # NoOp

PendingFor(name) == { c \in DOMAIN signal : c.Name = name }

\* C19 as stated: pending signals are merged per channel name: at any time at
\* most one signal is pending for a name, and a drain makes exactly one
\* dispatch request for each name it was triggered for, with the OR of the flags
\* of all triggers for that name, whatever the metadata of their identities.
C19_SignalsMergedPerName ==
    /\ \A name \in Names : Cardinality(PendingFor(name)) <= 1
    /\ \A c \in PChannels :
          (SweepOver /\ Triggered(drainSrc, c) # {}) =>
              /\ BagCardinality(Restrict(reqs, RequestsFor(c.Name))) = 1
              /\ \A r \in RequestsFor(c.Name) :
                    r.persisted = (\E d \in SameName(drainSrc, c) : Merged(drainSrc, d))

\* A TriggerSync(_, true) for the name was collected by the latest drain.
DrainedTrue(name) == \E c \in PChannels : c.Name = name /\ <<c, TRUE>> \in drainSrc

\* C20: an execution with persisted = true is launched only by a drain that
\* collected a TriggerSync(_, true) for its name, issued since the drain before;
\* an execution launched by a tick sweep has persisted = false; the flag of an
\* execution never changes, so every Sync(C, true) call goes back to such a
\* trigger and every Sync call caused by a tick is Sync(C, false).
C20_NoInventedPersistedSync ==
    /\ [][\A e \in BagToSet(execs') :
            LaunchedNow(e) =>
                /\ bgpc = "tick" => ~e.persisted
                /\ e.persisted => (bgpc = "drain" /\ DrainedTrue(e.name))]_vars
    /\ [][\A name \in Names :
            (\E e \in ExecsOf(name)' : e.persisted /\ ~LaunchedNow(e)) =>
                (\E e \in ExecsOf(name) : e.persisted)]_vars
    /\ [](\A k \in BagToSet(calls) : k.persisted => DrainedTrue(k.name))
    /\ [](\A e \in BagToSet(execs) :
            (e.cur /\ e.persisted) => (drainSrc # {} /\ DrainedTrue(e.name)))

\* C20 witness: a drain that collected a persisted and a plain trigger for two
\* names has launched both executions; one is inside Sync(_, true), the other
\* inside Sync(_, false).
C20_Witness ==
    \E A, B \in Names :
        /\ DrainedTrue(A)
        /\ ~DrainedTrue(B)
        /\ \E e \in SyncCalls(A) : e.cur /\ e.persisted
        /\ \E f \in SyncCalls(B) : f.cur /\ ~f.persisted
        /\ \E r \in RequestsFor(B) : r.ch # NoOp

====
